---- MODULE Spec2Model ----
(***************************************************************************)
(* Model of Brymen_Logger_V1.0.py: the line parser parse_all_measurements, *)
(* the reader thread SerialReaderThread (run / stop / set_logging) and the *)
(* SerialGUI handlers that drive it from the UI thread.                    *)
(*                                                                         *)
(* Text is modelled as a sequence of one-character strings, so that        *)
(* substring search, split, strip and the regular expression are computed  *)
(* character by character as Python computes them.                         *)
(***************************************************************************)
EXTENDS FiniteSets, Integers, Sequences, TLC

(***************************************************************************)
(* Bounds of the model.                                                    *)
(***************************************************************************)
\* number of pieces a line handed to the parser is assembled from
MaxPieces == 5
\* number of lines the serial channel delivers over a whole run
MaxLines == 2
\* number of times the user connects
MaxConnects == 2

\* Python's None
None == <<"None">>
\* a local variable of run() that no statement has assigned yet
Unbound == [unbound |-> TRUE]

(***************************************************************************)
(* Text literals.                                                          *)
(***************************************************************************)
S_MAIN == <<"M", "A", "I", "N", ":">>
S_AUX == <<"A", "U", "X", ":">>
S_LOWBAT == <<"L", "O", "W", " ", "B", "A", "T">>
S_OK == <<"O", "K">>
S_None == <<"N", "o", "n", "e">>
S_RAW == <<"R", "A", "W", ":", " ">>
S_RawData == <<"R", "a", "w", " ", "D", "a", "t", "a", ":", " ">>
S_Flags == <<"F", "l", "a", "g", "s", ":", " ", "[">>
S_SepMain == <<"]", " ", "|", " ", "M", "A", "I", "N", ":", " ">>
S_SepAux == <<" ", "|", " ", "A", "U", "X", ":", " ">>
S_SepBat == <<" ", "|", " ", "B", "a", "t", "t", "e", "r", "y", ":", " ">>
S_OpenErr == <<"C", "S", "V", " ", "O", "p", "e", "n", " ", "E", "r", "r", "o", "r">>

\* character classes of Python's re module, restricted to the characters used
IsSpace(c) == c \in {" ", "\t", "\n", "\r"}
IsDigit(c) == c \in {"0", "1", "2", "3", "4", "5", "6", "7", "8", "9"}
IsSign(c) == c \in {"+", "-"}
IsLetter(c) == c \in {"A", "B", "C", "D", "H", "I", "L", "M", "N", "O", "T",
                      "U", "V", "W", "X", "a", "m", "x", "z", "_"}
\* the class [\wΩ%]
IsUnitChar(c) == IsLetter(c) \/ IsDigit(c) \/ c \in {"Ω", "%"}

DigitVal(c) == CASE c = "0" -> 0 [] c = "1" -> 1 [] c = "2" -> 2 [] c = "3" -> 3
                 [] c = "4" -> 4 [] c = "5" -> 5 [] c = "6" -> 6 [] c = "7" -> 7
                 [] c = "8" -> 8 [] OTHER -> 9
DigitChar(d) == CASE d = 0 -> "0" [] d = 1 -> "1" [] d = 2 -> "2" [] d = 3 -> "3"
                  [] d = 4 -> "4" [] d = 5 -> "5" [] d = 6 -> "6" [] d = 7 -> "7"
                  [] d = 8 -> "8" [] OTHER -> "9"

(***************************************************************************)
(* str operations.                                                         *)
(***************************************************************************)
\* t[i:] with a 1-based i
From(t, i) == SubSeq(t, i, Len(t))

\* pat occurs in t at position i
OccursAt(t, pat, i) ==
    /\ i >= 1
    /\ i + Len(pat) - 1 <= Len(t)
    /\ SubSeq(t, i, i + Len(pat) - 1) = pat

\* str.find: the position of the first occurrence of pat in t, 0 if none
Find(t, pat) ==
    LET hits == {i \in 1..Len(t) : OccursAt(t, pat, i)}
    IN  IF hits = {} THEN 0 ELSE CHOOSE i \in hits : \A j \in hits : i <= j

\* the operator "pat in t"
Contains(t, pat) == Find(t, pat) # 0

\* t.split(pat, 1)[0] and [1], for a t that contains pat
SplitBefore(t, pat) == SubSeq(t, 1, Find(t, pat) - 1)
SplitAfter(t, pat) == From(t, Find(t, pat) + Len(pat))

\* str.strip()
RECURSIVE LStrip(_)
LStrip(t) == IF t # <<>> /\ IsSpace(Head(t)) THEN LStrip(Tail(t)) ELSE t
RECURSIVE RStrip(_)
RStrip(t) == IF t # <<>> /\ IsSpace(t[Len(t)]) THEN RStrip(SubSeq(t, 1, Len(t) - 1)) ELSE t
Strip(t) == LStrip(RStrip(t))

\* the length of the longest run of characters of one class starting at t[i]
RECURSIVE SpaceRun(_, _)
SpaceRun(t, i) == IF i <= Len(t) /\ IsSpace(t[i]) THEN 1 + SpaceRun(t, i + 1) ELSE 0
RECURSIVE DigitRun(_, _)
DigitRun(t, i) == IF i <= Len(t) /\ IsDigit(t[i]) THEN 1 + DigitRun(t, i + 1) ELSE 0
RECURSIVE UnitRun(_, _)
UnitRun(t, i) == IF i <= Len(t) /\ IsUnitChar(t[i]) THEN 1 + UnitRun(t, i + 1) ELSE 0
RECURSIVE WordRun(_, _)
WordRun(t, i) == IF i <= Len(t) /\ ~IsSpace(t[i]) THEN 1 + WordRun(t, i + 1) ELSE 0

\* str.split(): the whitespace-separated words of t
RECURSIVE Words(_)
Words(t) ==
    LET s == LStrip(t)
        n == WordRun(s, 1)
    IN  IF s = <<>> THEN <<>> ELSE <<SubSeq(s, 1, n)>> \o Words(From(s, n + 1))

\* " ".join(words)
RECURSIVE Join(_)
Join(ws) ==
    IF ws = <<>> THEN <<>>
    ELSE IF Len(ws) = 1 THEN ws[1]
    ELSE ws[1] \o <<" ">> \o Join(Tail(ws))

(***************************************************************************)
(* float() and str() of a float.  A float is <<"float", m, e>>, the number *)
(* m / 10^e with no trailing zero digit in the fraction; the digit strings *)
(* of the model are short enough to be represented exactly.                *)
(***************************************************************************)
RECURSIVE DigitsVal(_)
DigitsVal(ds) == IF ds = <<>> THEN 0
                 ELSE 10 * DigitsVal(SubSeq(ds, 1, Len(ds) - 1)) + DigitVal(ds[Len(ds)])

RECURSIVE Normalise(_, _)
Normalise(m, e) == IF e > 0 /\ m % 10 = 0 THEN Normalise(m \div 10, e - 1)
                   ELSE <<"float", m, e>>

\* float(s) for s matching [+-]?\d+(\.\d+)?  (the sign of a zero is not kept:
\* the digit strings of the model have no zero digit)
ToFloat(s) ==
    LET neg == s[1] = "-"
        body == IF IsSign(s[1]) THEN Tail(s) ELSE s
        dot == Find(body, <<".">>)
        ip == IF dot = 0 THEN body ELSE SubSeq(body, 1, dot - 1)
        fp == IF dot = 0 THEN <<>> ELSE From(body, dot + 1)
        mag == Normalise(DigitsVal(ip \o fp), Len(fp))
    IN  <<"float", IF neg THEN 0 - mag[2] ELSE mag[2], mag[3]>>

RECURSIVE NatStr(_)
NatStr(n) == IF n < 10 THEN <<DigitChar(n)>> ELSE NatStr(n \div 10) \o <<DigitChar(n % 10)>>

RECURSIVE Pow10(_)
Pow10(e) == IF e = 0 THEN 1 ELSE 10 * Pow10(e - 1)

RECURSIVE ZeroPad(_, _)
ZeroPad(ds, n) == IF Len(ds) >= n THEN ds ELSE ZeroPad(<<"0">> \o ds, n)

\* str(f) of a float f: always with a fractional part ("1.0", "-3.2")
FloatStr(f) ==
    LET a == IF f[2] < 0 THEN 0 - f[2] ELSE f[2]
        p == Pow10(f[3])
    IN  (IF f[2] < 0 THEN <<"-">> ELSE <<>>)
        \o NatStr(a \div p) \o <<".">>
        \o (IF f[3] = 0 THEN <<"0">> ELSE ZeroPad(NatStr(a % p), f[3]))

\* str(v) as an f-string renders it: None gives the text "None"
Str(v) == IF v = None THEN S_None ELSE FloatStr(v)

(***************************************************************************)
(* main_regex = \s*([+-]?\d+(?:\.\d+)?)\s*([\wΩ%]+), tried at a fixed      *)
(* start position with Python's backtracking order: every quantifier is   *)
(* greedy and gives characters back one at a time.                         *)
(***************************************************************************)
NoMatch == [ok |-> FALSE]

\* the pattern's tail \s*([\wΩ%]+) from position k, after a number t[j..k-1]
UnitAt(t, j, k) ==
    LET u == k + SpaceRun(t, k)
        n == UnitRun(t, u)
    IN  IF n >= 1
        THEN [ok |-> TRUE, num |-> SubSeq(t, j, k - 1),
              unit |-> SubSeq(t, u, u + n - 1), end |-> u + n]
        ELSE NoMatch

\* the candidate end positions (exclusive) of the number starting with digits
\* at position d, in the order the backtracking tries them
NumberEnds(t, d) ==
    LET n == DigitRun(t, d)
        f == IF d + n <= Len(t) /\ t[d + n] = "." THEN DigitRun(t, d + n + 1) ELSE 0
        withFrac == [i \in 1..f |-> d + n + 1 + (f - i + 1)]
        noFrac == [i \in 1..n |-> d + (n - i + 1)]
    IN  withFrac \o noFrac

\* the first candidate of a sequence of number ends that lets the tail match
RECURSIVE FirstUnit(_, _, _)
FirstUnit(t, j, ends) ==
    IF ends = <<>> THEN NoMatch
    ELSE IF UnitAt(t, j, Head(ends)).ok THEN UnitAt(t, j, Head(ends))
    ELSE FirstUnit(t, j, Tail(ends))

\* main_regex.match(t, i)
MatchAt(t, i) ==
    LET j == i + SpaceRun(t, i)
        d == IF j <= Len(t) /\ IsSign(t[j]) THEN j + 1 ELSE j
    IN  IF DigitRun(t, d) = 0 THEN NoMatch ELSE FirstUnit(t, j, NumberEnds(t, d))

\* main_regex.search(t): the match at the leftmost position that has one
RegexSearch(t) ==
    LET hits == {i \in 1..Len(t) : MatchAt(t, i).ok}
    IN  IF hits = {} THEN NoMatch
        ELSE MatchAt(t, CHOOSE i \in hits : \A k \in hits : i <= k)

(***************************************************************************)
(* parse_all_measurements                                                  *)
(***************************************************************************)
\* a variant that searches the aux measurement in post_main, not in the
\* text after AUX:
parse_all_measurements_AuxFromMain(message) ==
    IF Contains(message, S_MAIN)
    THEN LET post_main == SplitAfter(message, S_MAIN)
             m_main == RegexSearch(post_main)
         IN  [flags |-> Words(Strip(SplitBefore(message, S_MAIN))),
              main_value |-> IF m_main.ok THEN ToFloat(m_main.num) ELSE None,
              main_unit |-> IF m_main.ok THEN m_main.unit ELSE None,
              aux_value |-> IF Contains(post_main, S_AUX) /\ m_main.ok
                            THEN ToFloat(m_main.num) ELSE None,
              aux_unit |-> IF Contains(post_main, S_AUX) /\ m_main.ok
                           THEN m_main.unit ELSE None,
              low_battery |-> Contains(message, S_LOWBAT)]
    ELSE [raw |-> message]

\* a variant that fills raw in a structured reading too, and strips it
parse_all_measurements_KeepsRaw(message) ==
    IF Contains(message, S_MAIN)
    THEN [flags |-> Words(Strip(SplitBefore(message, S_MAIN))),
          main_value |-> None, main_unit |-> None,
          aux_value |-> None, aux_unit |-> None,
          low_battery |-> Contains(message, S_LOWBAT),
          raw |-> message]
    ELSE [raw |-> Strip(message)]

parse_all_measurements(message) ==
    IF Contains(message, S_MAIN)
    THEN LET pre_main == SplitBefore(message, S_MAIN)
             post_main == SplitAfter(message, S_MAIN)
             m_main == RegexSearch(post_main)
             hasAux == Contains(post_main, S_AUX)
             m_aux == IF hasAux THEN RegexSearch(SplitAfter(post_main, S_AUX)) ELSE NoMatch
         IN  [flags |-> Words(Strip(pre_main)),
              main_value |-> IF m_main.ok THEN ToFloat(m_main.num) ELSE None,
              main_unit |-> IF m_main.ok THEN m_main.unit ELSE None,
              aux_value |-> IF m_aux.ok THEN ToFloat(m_aux.num) ELSE None,
              aux_unit |-> IF m_aux.ok THEN m_aux.unit ELSE None,
              low_battery |-> Contains(message, S_LOWBAT)]
    ELSE [raw |-> message]

IsRaw(parsed) == "raw" \in DOMAIN parsed

\* run(), lines 124-129: the locals of the structured branch
StructuredLocals(parsed) ==
    [flags_str |-> Join(parsed.flags),
     main_val |-> parsed.main_value,
     main_unit |-> IF parsed.main_unit = None THEN <<>> ELSE parsed.main_unit,
     aux_val |-> parsed.aux_value,
     aux_unit |-> IF parsed.aux_unit = None THEN <<>> ELSE parsed.aux_unit,
     battery_str |-> IF parsed.low_battery THEN S_LOWBAT ELSE S_OK]

\* run(), lines 130-133: the f-string of the structured branch
StructuredLogStr(loc) ==
    S_Flags \o loc.flags_str
    \o S_SepMain \o Str(loc.main_val) \o <<" ">> \o loc.main_unit
    \o S_SepAux \o Str(loc.aux_val) \o <<" ">> \o loc.aux_unit
    \o S_SepBat \o loc.battery_str

\* run(), lines 120-133: the summary string of a parsed reading
BuildLogStr(parsed) ==
    IF IsRaw(parsed)
    THEN S_RawData \o parsed.raw
    ELSE StructuredLogStr(StructuredLocals(parsed))

\* run(), lines 152-156: the CSV line; "<ts>" stands for the formatted time
CsvLine(loc) ==
    <<"<ts>", ",", "\"">> \o loc.flags_str \o <<"\"", ",">>
    \o (IF loc.main_val = None THEN <<>> ELSE FloatStr(loc.main_val))
    \o <<",", "\"">> \o loc.main_unit \o <<"\"", ",">>
    \o (IF loc.aux_val = None THEN <<>> ELSE FloatStr(loc.aux_val))
    \o <<",", "\"">> \o loc.aux_unit \o <<"\"", ",">>
    \o loc.battery_str \o <<"\n">>

\* bytes.decode(errors="replace"): an invalid byte becomes U+FFFD
Decode(bytes) == [i \in 1..Len(bytes) |-> IF bytes[i] = "0xFF" THEN "U+FFFD" ELSE bytes[i]]

(***************************************************************************)
(* The file system and the user's inputs.                                  *)
(***************************************************************************)
\* self.csv_file = None
NoFile == 0
\* the file objects that stay once the closed ones nothing refers to are
\* collected
Collected(hs) == SelectSeq(hs, LAMBDA h : ~h.closed)
\* self.csv_path = None
NoPath == [none |-> TRUE]
\* an empty (or blank) CSV file entry
EmptyText == [dir |-> "", name |-> ""]
\* the paths the user can enter: one without a directory component
Paths == {[dir |-> "", name |-> "a.csv"], [dir |-> "d", name |-> "b.csv"]}
EntryTexts == Paths \cup {EmptyText}

\* os.path.dirname
Dirname(path) == path.dir

\* the lines the serial channel can deliver, as read by readline()
L_Full == S_MAIN \o <<" ", "1", " ", "V", "\n">>
L_NoMain == <<"z", " ">> \o S_MAIN \o <<"\n">>
L_Raw == <<"0xFF", "\n">>
L_Blank == <<" ", "\n">>
ChannelLines == {L_Full, L_NoMain, L_Raw, L_Blank}

\* parse_all_measurements on the lines the loop can hand to it, computed once
ParsedLine == [l \in {Strip(Decode(bytes)) : bytes \in ChannelLines} |->
                  parse_all_measurements(l)]

VARIABLES
    \* the parser called on its own
    pline, presult, psummary,
    \* SerialGUI
    serial_conn, reader_thread, connected, logging_active, buttons, destroyed,
    \* the UI thread: the handler statement it is at, its return addresses,
    \* and the csv_path argument of the set_logging call in progress
    upc, ustack, uarg,
    \* SerialReaderThread
    stop_event, logging_enabled, csv_file, csv_path,
    \* run(): the statement it is at and its locals
    rpc, line, parsed_data, locals, log_str, csv_line, exc,
    \* the file handles ever opened, and the serial port
    handles, port_open,
    \* what the reader loop has emitted in its current iteration
    events,
    \* counters that bound the run
    linesRead, connects

pvars == <<pline, presult, psummary>>
guiVars == <<serial_conn, reader_thread, connected, logging_active, buttons, destroyed>>
uiVars == <<upc, ustack, uarg>>
thrVars == <<stop_event, logging_enabled, csv_file, csv_path>>
runVars == <<rpc, line, parsed_data, locals, log_str, csv_line, exc>>
envVars == <<handles, port_open, events, linesRead, connects>>
vars == <<pvars, guiVars, uiVars, thrVars, runVars, envVars>>

NotRun == [notrun |-> TRUE]

\* SerialGUI.__init__, lines 251-255 and the button states of lines 215, 248
GuiInit ==
    /\ serial_conn = "None"
    /\ reader_thread = "None"
    /\ connected = FALSE
    /\ logging_active = FALSE
    /\ buttons = [logging |-> "disabled", send |-> "disabled", connect |-> "Connect"]
    /\ destroyed = FALSE
    /\ upc = "idle"
    /\ ustack = <<>>
    /\ uarg = NoPath
    /\ stop_event = FALSE
    /\ logging_enabled = FALSE
    /\ csv_file = NoFile
    /\ csv_path = NoPath
    /\ rpc = "nothread"
    /\ line = <<>>
    /\ parsed_data = NotRun
    /\ locals = Unbound
    /\ log_str = <<>>
    /\ csv_line = <<>>
    /\ exc = "none"
    /\ handles = <<>>
    /\ port_open = FALSE
    /\ events = <<>>
    /\ linesRead = 0
    /\ connects = 0

Init ==
    /\ pline = <<>>
    /\ presult = NotRun
    /\ psummary = <<>>
    /\ GuiInit

(***************************************************************************)
(* SerialReaderThread.run, one action per statement that reads or writes   *)
(* state shared with the UI thread, calls a sink or can raise.             *)
(***************************************************************************)
Emit(ev) == events' = Append(events, ev)

\* a variant of line 109 that never looks at the stop flag
ReaderWhile_IgnoresStop ==
    /\ rpc = "while"
    /\ rpc' = "poll"
    /\ UNCHANGED <<line, parsed_data, locals, log_str, csv_line, exc>>
    /\ UNCHANGED <<pvars, guiVars, uiVars, thrVars, envVars>>

\* line 109: while not self._stop_event.is_set()
ReaderWhile ==
    /\ rpc = "while"
    /\ rpc' = IF stop_event THEN "final" ELSE "poll"
    /\ UNCHANGED <<line, parsed_data, locals, log_str, csv_line, exc>>
    /\ UNCHANGED <<pvars, guiVars, uiVars, thrVars, envVars>>

\* lines 110-111: try: if self.ser.in_waiting (raises on a closed or failing
\* port); a new iteration starts, with nothing emitted yet
ReaderPoll ==
    /\ rpc = "poll"
    /\ \E outcome \in {"data", "nodata", "error"} :
          /\ outcome = "data" => port_open /\ linesRead < MaxLines
          /\ outcome = "nodata" => port_open
          /\ rpc' = CASE outcome = "data" -> "read"
                      [] outcome = "nodata" -> "sleep"
                      [] OTHER -> "except"
          /\ exc' = IF outcome = "error" THEN "SerialException" ELSE exc
    /\ events' = <<>>
    /\ UNCHANGED <<line, parsed_data, locals, log_str, csv_line>>
    /\ UNCHANGED <<handles, port_open, linesRead, connects>>
    /\ UNCHANGED <<pvars, guiVars, uiVars, thrVars>>

\* lines 112-113: line = self.ser.readline().decode(errors="replace").strip()
ReaderRead ==
    /\ rpc = "read"
    /\ \/ \E bytes \in ChannelLines :
             /\ line' = Strip(Decode(bytes))
             /\ rpc' = IF Strip(Decode(bytes)) = <<>> THEN "sleep" ELSE "lograw"
             /\ exc' = exc
       \/ /\ rpc' = "except"
          /\ exc' = "SerialException"
          /\ line' = line
    /\ linesRead' = linesRead + 1
    /\ UNCHANGED <<parsed_data, locals, log_str, csv_line>>
    /\ UNCHANGED <<handles, port_open, events, connects>>
    /\ UNCHANGED <<pvars, guiVars, uiVars, thrVars>>

\* line 115: self.log_callback("RAW: " + line)
ReaderLogRaw ==
    /\ rpc = "lograw"
    /\ \/ /\ Emit([sink |-> "log", text |-> S_RAW \o line])
          /\ rpc' = "parse"
          /\ exc' = exc
       \/ /\ rpc' = "except"
          /\ exc' = "CallbackError"
          /\ events' = events
    /\ UNCHANGED <<line, parsed_data, locals, log_str, csv_line>>
    /\ UNCHANGED <<handles, port_open, linesRead, connects>>
    /\ UNCHANGED <<pvars, guiVars, uiVars, thrVars>>

\* lines 118-133: parse the line and build log_str; the locals flags_str ...
\* battery_str are assigned in the structured branch only
ReaderParse ==
    /\ rpc = "parse"
    /\ LET parsed == ParsedLine[line]
       IN  /\ parsed_data' = parsed
           /\ locals' = IF IsRaw(parsed) THEN locals ELSE StructuredLocals(parsed)
           /\ log_str' = BuildLogStr(parsed)
    /\ rpc' = "display"
    /\ UNCHANGED <<line, csv_line, exc>>
    /\ UNCHANGED <<pvars, guiVars, uiVars, thrVars, envVars>>

\* a variant of lines 136-137 without the test for a missing main value
ReaderDisplay_Always ==
    /\ rpc = "display"
    /\ IF ~IsRaw(parsed_data)
       THEN /\ Emit([sink |-> "display", value |-> parsed_data.main_value])
            /\ rpc' = "logsum"
       ELSE /\ rpc' = "logsum"
            /\ UNCHANGED events
    /\ UNCHANGED <<line, parsed_data, locals, log_str, csv_line, exc>>
    /\ UNCHANGED <<handles, port_open, linesRead, connects>>
    /\ UNCHANGED <<pvars, guiVars, uiVars, thrVars>>

\* lines 136-137: self.update_callback(parsed_data["main_value"])
ReaderDisplay ==
    /\ rpc = "display"
    /\ IF ~IsRaw(parsed_data) /\ parsed_data.main_value # None
       THEN \/ /\ Emit([sink |-> "display", value |-> parsed_data.main_value])
               /\ rpc' = "logsum"
               /\ exc' = exc
            \/ /\ rpc' = "except"
               /\ exc' = "CallbackError"
               /\ events' = events
       ELSE /\ rpc' = "logsum"
            /\ UNCHANGED <<events, exc>>
    /\ UNCHANGED <<line, parsed_data, locals, log_str, csv_line>>
    /\ UNCHANGED <<handles, port_open, linesRead, connects>>
    /\ UNCHANGED <<pvars, guiVars, uiVars, thrVars>>

\* a variant of line 140 that does not deliver the summary
ReaderLogSummary_Skipped ==
    /\ rpc = "logsum"
    /\ rpc' = "chk_enabled"
    /\ UNCHANGED <<line, parsed_data, locals, log_str, csv_line, exc>>
    /\ UNCHANGED <<pvars, guiVars, uiVars, thrVars, envVars>>

\* line 140: self.log_callback(log_str)
ReaderLogSummary ==
    /\ rpc = "logsum"
    /\ \/ /\ Emit([sink |-> "log", text |-> log_str])
          /\ rpc' = "chk_enabled"
          /\ exc' = exc
       \/ /\ rpc' = "except"
          /\ exc' = "CallbackError"
          /\ events' = events
    /\ UNCHANGED <<line, parsed_data, locals, log_str, csv_line>>
    /\ UNCHANGED <<handles, port_open, linesRead, connects>>
    /\ UNCHANGED <<pvars, guiVars, uiVars, thrVars>>

\* line 143: if self.logging_enabled
ReaderCheckLogging ==
    /\ rpc = "chk_enabled"
    /\ rpc' = IF logging_enabled THEN "chk_file" ELSE "sleep"
    /\ UNCHANGED <<line, parsed_data, locals, log_str, csv_line, exc>>
    /\ UNCHANGED <<pvars, guiVars, uiVars, thrVars, envVars>>

\* line 144: if self.csv_file is None and self.csv_path
ReaderCheckFile ==
    /\ rpc = "chk_file"
    /\ rpc' = IF csv_file = NoFile /\ csv_path # NoPath /\ csv_path # EmptyText
              THEN "makedirs" ELSE "chk_written"
    /\ UNCHANGED <<line, parsed_data, locals, log_str, csv_line, exc>>
    /\ UNCHANGED <<pvars, guiVars, uiVars, thrVars, envVars>>

\* line 146: os.makedirs(os.path.dirname(self.csv_path), exist_ok=True);
\* os.makedirs("") raises FileNotFoundError
ReaderMakedirs ==
    /\ rpc = "makedirs"
    /\ \/ /\ Dirname(csv_path) # ""
          /\ rpc' = "open"
          /\ exc' = exc
       \/ /\ rpc' = "openerr"
          /\ exc' = IF Dirname(csv_path) = "" THEN "FileNotFoundError" ELSE "OSError"
    /\ UNCHANGED <<line, parsed_data, locals, log_str, csv_line>>
    /\ UNCHANGED <<pvars, guiVars, uiVars, thrVars, envVars>>

\* a variant of line 147 whose failure leaves a file object in csv_file
ReaderOpen_KeepsHandle ==
    /\ rpc = "open"
    /\ handles' = Append(handles, [path |-> csv_path, closed |-> FALSE,
                                   openedBy |-> "reader", closedBy |-> "none",
                                   rows |-> 0])
    /\ csv_file' = Len(handles) + 1
    /\ \/ /\ rpc' = "chk_written"
          /\ exc' = exc
       \/ /\ rpc' = "openerr"
          /\ exc' = "OSError"
    /\ UNCHANGED <<line, parsed_data, locals, log_str, csv_line>>
    /\ UNCHANGED <<port_open, events, linesRead, connects>>
    /\ UNCHANGED <<stop_event, logging_enabled, csv_path>>
    /\ UNCHANGED <<pvars, guiVars, uiVars>>

\* line 147: self.csv_file = open(self.csv_path, "a", encoding="utf-8")
ReaderOpen ==
    /\ rpc = "open"
    /\ \/ /\ handles' = Append(handles, [path |-> csv_path, closed |-> FALSE,
                                         openedBy |-> "reader", closedBy |-> "none",
                                         rows |-> 0])
          /\ csv_file' = Len(handles) + 1
          /\ rpc' = "chk_written"
          /\ exc' = exc
       \/ /\ rpc' = "openerr"
          /\ exc' = "OSError"
          /\ UNCHANGED <<handles, csv_file>>
    /\ UNCHANGED <<line, parsed_data, locals, log_str, csv_line>>
    /\ UNCHANGED <<port_open, events, linesRead, connects>>
    /\ UNCHANGED <<stop_event, logging_enabled, csv_path>>
    /\ UNCHANGED <<pvars, guiVars, uiVars>>

\* lines 148-149: except Exception as e: self.log_callback(f"CSV Open Error: {e}")
ReaderOpenError ==
    /\ rpc = "openerr"
    /\ \/ /\ Emit([sink |-> "log", text |-> S_OpenErr])
          /\ rpc' = "chk_written"
          /\ exc' = "none"
       \/ /\ rpc' = "except"
          /\ exc' = "CallbackError"
          /\ events' = events
    /\ UNCHANGED <<line, parsed_data, locals, log_str, csv_line>>
    /\ UNCHANGED <<handles, port_open, linesRead, connects>>
    /\ UNCHANGED <<pvars, guiVars, uiVars, thrVars>>

\* line 150: if self.csv_file
ReaderCheckWritable ==
    /\ rpc = "chk_written"
    /\ rpc' = IF csv_file # NoFile THEN "mkrow" ELSE "sleep"
    /\ UNCHANGED <<line, parsed_data, locals, log_str, csv_line, exc>>
    /\ UNCHANGED <<pvars, guiVars, uiVars, thrVars, envVars>>

\* lines 152-156: csv_line = f"{ts},\"{flags_str}\",..."; a local that was
\* never assigned raises UnboundLocalError (a NameError)
ReaderBuildRow ==
    /\ rpc = "mkrow"
    /\ IF locals = Unbound
       THEN /\ rpc' = "except"
            /\ exc' = "NameError"
            /\ csv_line' = csv_line
       ELSE /\ rpc' = "write"
            /\ exc' = exc
            /\ csv_line' = CsvLine(locals)
    /\ UNCHANGED <<line, parsed_data, locals, log_str>>
    /\ UNCHANGED <<pvars, guiVars, uiVars, thrVars, envVars>>

\* a variant of line 157 whose failure ends the loop instead of being caught
ReaderWrite_Uncaught ==
    /\ rpc = "write"
    /\ IF csv_file = NoFile \/ handles[csv_file].closed
       THEN /\ rpc' = "final"
            /\ exc' = "ValueError"
            /\ UNCHANGED <<handles, events>>
       ELSE /\ handles' = [handles EXCEPT ![csv_file].rows = @ + 1]
            /\ Emit([sink |-> "csv", handle |-> csv_file,
                     path |-> handles[csv_file].path, row |-> csv_line])
            /\ rpc' = "flush"
            /\ exc' = exc
    /\ UNCHANGED <<line, parsed_data, locals, log_str, csv_line>>
    /\ UNCHANGED <<port_open, linesRead, connects>>
    /\ UNCHANGED <<pvars, guiVars, uiVars, thrVars>>

\* line 157: self.csv_file.write(csv_line); None has no write (AttributeError),
\* a closed file refuses it (ValueError), the device can fail (OSError)
ReaderWrite ==
    /\ rpc = "write"
    /\ IF csv_file = NoFile
       THEN /\ rpc' = "except"
            /\ exc' = "AttributeError"
            /\ UNCHANGED <<handles, events>>
       ELSE IF handles[csv_file].closed
       THEN /\ rpc' = "except"
            /\ exc' = "ValueError"
            /\ UNCHANGED <<handles, events>>
       ELSE \/ /\ handles' = [handles EXCEPT ![csv_file].rows = @ + 1]
               /\ Emit([sink |-> "csv", handle |-> csv_file,
                        path |-> handles[csv_file].path, row |-> csv_line])
               /\ rpc' = "flush"
               /\ exc' = exc
            \/ /\ rpc' = "except"
               /\ exc' = "OSError"
               /\ UNCHANGED <<handles, events>>
    /\ UNCHANGED <<line, parsed_data, locals, log_str, csv_line>>
    /\ UNCHANGED <<port_open, linesRead, connects>>
    /\ UNCHANGED <<pvars, guiVars, uiVars, thrVars>>

\* line 158: self.csv_file.flush()
ReaderFlush ==
    /\ rpc = "flush"
    /\ IF csv_file = NoFile
       THEN /\ rpc' = "except"
            /\ exc' = "AttributeError"
       ELSE IF handles[csv_file].closed
       THEN /\ rpc' = "except"
            /\ exc' = "ValueError"
       ELSE /\ rpc' = "sleep"
            /\ exc' = exc
    /\ UNCHANGED <<line, parsed_data, locals, log_str, csv_line>>
    /\ UNCHANGED <<pvars, guiVars, uiVars, thrVars, envVars>>

\* lines 159-160: except Exception as e: print("Error in serial reading:", e)
ReaderExcept ==
    /\ rpc = "except"
    /\ Emit([sink |-> "diag", exc |-> exc])
    /\ exc' = "none"
    /\ rpc' = "sleep"
    /\ UNCHANGED <<line, parsed_data, locals, log_str, csv_line>>
    /\ UNCHANGED <<handles, port_open, linesRead, connects>>
    /\ UNCHANGED <<pvars, guiVars, uiVars, thrVars>>

\* line 161: time.sleep(0.01)
ReaderSleep ==
    /\ rpc = "sleep"
    /\ rpc' = "while"
    /\ UNCHANGED <<line, parsed_data, locals, log_str, csv_line, exc>>
    /\ UNCHANGED <<pvars, guiVars, uiVars, thrVars, envVars>>

\* line 162: if self.csv_file
ReaderFinal ==
    /\ rpc = "final"
    /\ rpc' = IF csv_file # NoFile THEN "close" ELSE "done"
    /\ UNCHANGED <<line, parsed_data, locals, log_str, csv_line, exc>>
    /\ UNCHANGED <<pvars, guiVars, uiVars, thrVars, envVars>>

\* a variant of line 163 that leaves the file open
ReaderClose_Leaks ==
    /\ rpc = "close"
    /\ rpc' = "done"
    /\ UNCHANGED <<line, parsed_data, locals, log_str, csv_line, exc>>
    /\ UNCHANGED <<pvars, guiVars, uiVars, thrVars, envVars>>

\* line 163: self.csv_file.close(), outside the try: on None the thread dies
\* of the AttributeError; closing a closed file does nothing
ReaderClose ==
    /\ rpc = "close"
    /\ rpc' = "done"
    /\ IF csv_file = NoFile
       THEN /\ exc' = "AttributeError"
            /\ handles' = handles
       ELSE /\ exc' = exc
            /\ handles' = [handles EXCEPT ![csv_file] =
                              IF @.closed THEN @
                              ELSE [@ EXCEPT !.closed = TRUE, !.closedBy = "reader"]]
    /\ UNCHANGED <<line, parsed_data, locals, log_str, csv_line>>
    /\ UNCHANGED <<port_open, events, linesRead, connects>>
    /\ UNCHANGED <<pvars, guiVars, uiVars, thrVars>>

ReaderNext ==
    \/ ReaderWhile
    \/ ReaderPoll
    \/ ReaderRead
    \/ ReaderLogRaw
    \/ ReaderParse
    \/ ReaderDisplay
    \/ ReaderLogSummary
    \/ ReaderCheckLogging
    \/ ReaderCheckFile
    \/ ReaderMakedirs
    \/ ReaderOpen
    \/ ReaderOpenError
    \/ ReaderCheckWritable
    \/ ReaderBuildRow
    \/ ReaderWrite
    \/ ReaderFlush
    \/ ReaderExcept
    \/ ReaderSleep
    \/ ReaderFinal
    \/ ReaderClose

(***************************************************************************)
(* SerialGUI: the handlers the UI thread runs, one at a time.  A handler   *)
(* is cut where it reads or writes a field of the reader thread.           *)
(***************************************************************************)
Return ==
    /\ upc' = Head(ustack)
    /\ ustack' = Tail(ustack)

Call(target, back) ==
    /\ upc' = target
    /\ ustack' = <<back>> \o ustack

\* lines 282-286: toggle_connection, the Connect/Disconnect button
UIToggleConnection ==
    /\ upc = "idle"
    /\ IF connected THEN Call("disconnect", "idle") ELSE Call("connect", "idle")
    /\ UNCHANGED <<uarg>>
    /\ UNCHANGED <<pvars, guiVars, thrVars, runVars, envVars>>

\* a variant of lines 296-304 in which the failure of serial.Serial shows
\* only after the connection state was set
UIConnect_FailsLate ==
    /\ upc = "connect"
    /\ serial_conn' = "open"
    /\ connected' = TRUE
    /\ buttons' = [logging |-> "normal", send |-> "normal", connect |-> "Disconnect"]
    /\ \/ /\ connects < MaxConnects
          /\ port_open' = TRUE
          /\ connects' = connects + 1
          /\ upc' = "connect_start"
       \/ /\ upc' = "connect_error"
          /\ UNCHANGED <<port_open, connects>>
    /\ UNCHANGED <<reader_thread, logging_active, destroyed, ustack, uarg>>
    /\ UNCHANGED <<handles, events, linesRead>>
    /\ UNCHANGED <<pvars, thrVars, runVars>>

\* lines 288-306: connect up to the "Connected" dialog; with no port selected
\* (290-292) or serial.Serial raising (296-300) nothing is assigned and an
\* error dialog is shown
UIConnect ==
    /\ upc = "connect"
    /\ \/ /\ connects < MaxConnects
          /\ serial_conn' = "open"
          /\ port_open' = TRUE
          /\ connected' = TRUE
          /\ buttons' = [logging |-> "normal", send |-> "normal", connect |-> "Disconnect"]
          /\ connects' = connects + 1
          /\ upc' = "connect_start"
       \/ /\ upc' = "connect_error"
          /\ UNCHANGED <<serial_conn, port_open, connected, buttons, connects>>
    /\ UNCHANGED <<reader_thread, logging_active, destroyed, ustack, uarg>>
    /\ UNCHANGED <<handles, events, linesRead>>
    /\ UNCHANGED <<pvars, thrVars, runVars>>

\* lines 291-292 and 299-300: the error dialog is dismissed and connect returns
UIConnectError ==
    /\ upc = "connect_error"
    /\ Return
    /\ UNCHANGED <<uarg>>
    /\ UNCHANGED <<pvars, guiVars, thrVars, runVars, envVars>>

\* lines 309-313 with SerialReaderThread.__init__ (98-106): a new thread
\* object is created and started
UIConnectStart ==
    /\ upc = "connect_start"
    /\ reader_thread' = "thread"
    /\ stop_event' = FALSE
    /\ logging_enabled' = FALSE
    /\ csv_file' = NoFile
    /\ csv_path' = NoPath
    /\ rpc' = "while"
    /\ line' = <<>>
    /\ parsed_data' = NotRun
    /\ locals' = Unbound
    /\ log_str' = <<>>
    /\ csv_line' = <<>>
    /\ exc' = "none"
    /\ events' = <<>>
    /\ handles' = Collected(handles)
    /\ Return
    /\ UNCHANGED <<serial_conn, connected, logging_active, buttons, destroyed, uarg>>
    /\ UNCHANGED <<port_open, linesRead, connects>>
    /\ UNCHANGED pvars

\* a variant of lines 315-317 that does not stop the logging
UIDisconnect_KeepsLogging ==
    /\ upc = "disconnect"
    /\ upc' = "disc_stop"
    /\ UNCHANGED <<ustack, uarg>>
    /\ UNCHANGED <<pvars, guiVars, thrVars, runVars, envVars>>

\* lines 315-317: disconnect: if self.logging_active: self.stop_logging()
UIDisconnect ==
    /\ upc = "disconnect"
    /\ IF logging_active
       THEN Call("stop_logging", "disc_stop")
       ELSE upc' = "disc_stop" /\ ustack' = ustack
    /\ UNCHANGED <<uarg>>
    /\ UNCHANGED <<pvars, guiVars, thrVars, runVars, envVars>>

\* lines 318-319: if self.reader_thread: self.reader_thread.stop()
UIDisconnectStop ==
    /\ upc = "disc_stop"
    /\ IF reader_thread # "None"
       THEN stop_event' = TRUE /\ upc' = "disc_join"
       ELSE stop_event' = stop_event /\ upc' = "disc_close"
    /\ UNCHANGED <<ustack, uarg, logging_enabled, csv_file, csv_path>>
    /\ UNCHANGED <<pvars, guiVars, runVars, envVars>>

\* a variant of lines 320-321 that does not wait for the thread
UIDisconnectJoin_NoWait ==
    /\ upc = "disc_join"
    /\ reader_thread' = "None"
    /\ upc' = "disc_close"
    /\ UNCHANGED <<serial_conn, connected, logging_active, buttons, destroyed>>
    /\ UNCHANGED <<ustack, uarg>>
    /\ UNCHANGED <<pvars, thrVars, runVars, envVars>>

\* lines 320-321: self.reader_thread.join(); self.reader_thread = None
UIDisconnectJoin ==
    /\ upc = "disc_join"
    /\ rpc = "done"
    /\ reader_thread' = "None"
    /\ upc' = "disc_close"
    /\ UNCHANGED <<serial_conn, connected, logging_active, buttons, destroyed>>
    /\ UNCHANGED <<ustack, uarg>>
    /\ UNCHANGED <<pvars, thrVars, runVars, envVars>>

\* lines 322-329: close the port and reset the connection state
UIDisconnectClose ==
    /\ upc = "disc_close"
    /\ port_open' = IF serial_conn # "None" THEN FALSE ELSE port_open
    /\ serial_conn' = "None"
    /\ connected' = FALSE
    /\ buttons' = [logging |-> "disabled", send |-> "disabled", connect |-> "Connect"]
    /\ Return
    /\ UNCHANGED <<reader_thread, logging_active, destroyed, uarg>>
    /\ UNCHANGED <<handles, events, linesRead, connects>>
    /\ UNCHANGED <<pvars, thrVars, runVars>>

\* lines 331-335: toggle_logging, the logging button (enabled once connected)
UIToggleLogging ==
    /\ upc = "idle"
    /\ buttons.logging = "normal"
    /\ IF logging_active THEN Call("stop_logging", "idle") ELSE Call("start_logging", "idle")
    /\ UNCHANGED <<uarg>>
    /\ UNCHANGED <<pvars, guiVars, thrVars, runVars, envVars>>

\* lines 337-349: start_logging up to the call of set_logging(True, csv_path)
UIStartLogging ==
    /\ upc = "start_logging"
    /\ \E text \in EntryTexts :
          IF ~connected \/ serial_conn = "None" \/ text = EmptyText
          THEN /\ Return
               /\ UNCHANGED <<logging_active, buttons, uarg>>
          ELSE /\ logging_active' = TRUE
               /\ buttons' = buttons
               /\ IF reader_thread # "None"
                  THEN upc' = "set_on" /\ ustack' = ustack /\ uarg' = text
                  ELSE Return /\ uarg' = uarg
    /\ UNCHANGED <<serial_conn, reader_thread, connected, destroyed>>
    /\ UNCHANGED <<pvars, thrVars, runVars, envVars>>

\* line 170 in set_logging(True, csv_path): self.logging_enabled = enabled
UISetLoggingOnFlag ==
    /\ upc = "set_on"
    /\ logging_enabled' = TRUE
    /\ upc' = "set_on_path"
    /\ UNCHANGED <<ustack, uarg, stop_event, csv_file, csv_path>>
    /\ UNCHANGED <<pvars, guiVars, runVars, envVars>>

\* lines 171-172 in set_logging(True, csv_path): self.csv_path = csv_path
UISetLoggingOnPath ==
    /\ upc = "set_on_path"
    /\ csv_path' = uarg
    /\ uarg' = NoPath
    /\ Return
    /\ UNCHANGED <<stop_event, logging_enabled, csv_file>>
    /\ UNCHANGED <<handles, port_open, events, linesRead, connects>>
    /\ UNCHANGED <<pvars, guiVars, runVars>>

\* lines 351-353: stop_logging: if self.reader_thread: set_logging(False)
UIStopLogging ==
    /\ upc = "stop_logging"
    /\ upc' = IF reader_thread # "None" THEN "set_off" ELSE "stop_logging_done"
    /\ UNCHANGED <<ustack, uarg>>
    /\ UNCHANGED <<pvars, guiVars, thrVars, runVars, envVars>>

\* line 170 in set_logging(False): self.logging_enabled = enabled
UISetLoggingOffFlag ==
    /\ upc = "set_off"
    /\ logging_enabled' = FALSE
    /\ upc' = "set_off_chk"
    /\ UNCHANGED <<ustack, uarg, stop_event, csv_file, csv_path>>
    /\ UNCHANGED <<pvars, guiVars, runVars, envVars>>

\* line 174 in set_logging(False): if self.csv_file
UISetLoggingOffCheck ==
    /\ upc = "set_off_chk"
    /\ upc' = IF csv_file # NoFile THEN "set_off_close" ELSE "stop_logging_done"
    /\ UNCHANGED <<ustack, uarg>>
    /\ UNCHANGED <<pvars, guiVars, thrVars, runVars, envVars>>

\* line 175 in set_logging(False): self.csv_file.close(), on the UI thread
UISetLoggingOffClose ==
    /\ upc = "set_off_close"
    /\ handles' = [handles EXCEPT ![csv_file] =
                      IF @.closed THEN @
                      ELSE [@ EXCEPT !.closed = TRUE, !.closedBy = "ui"]]
    /\ upc' = "set_off_none"
    /\ UNCHANGED <<ustack, uarg>>
    /\ UNCHANGED <<port_open, events, linesRead, connects>>
    /\ UNCHANGED <<pvars, guiVars, thrVars, runVars>>

\* line 176 in set_logging(False): self.csv_file = None; the closed file
\* object is not referred to any more
UISetLoggingOffClear ==
    /\ upc = "set_off_none"
    /\ csv_file' = NoFile
    /\ handles' = Collected(handles)
    /\ upc' = "stop_logging_done"
    /\ UNCHANGED <<ustack, uarg, stop_event, logging_enabled, csv_path>>
    /\ UNCHANGED <<port_open, events, linesRead, connects>>
    /\ UNCHANGED <<pvars, guiVars, runVars>>

\* lines 354-355: self.logging_active = False
UIStopLoggingDone ==
    /\ upc = "stop_logging_done"
    /\ logging_active' = FALSE
    /\ Return
    /\ UNCHANGED <<serial_conn, reader_thread, connected, buttons, destroyed, uarg>>
    /\ UNCHANGED <<pvars, thrVars, runVars, envVars>>

\* lines 386-388: on_closing: if self.logging_active: self.stop_logging()
UIOnClosing ==
    /\ upc = "idle"
    /\ IF logging_active
       THEN Call("stop_logging", "closing_disconnect")
       ELSE upc' = "closing_disconnect" /\ ustack' = ustack
    /\ UNCHANGED <<uarg>>
    /\ UNCHANGED <<pvars, guiVars, thrVars, runVars, envVars>>

\* lines 389-390: if self.connected: self.disconnect()
UIClosingDisconnect ==
    /\ upc = "closing_disconnect"
    /\ IF connected
       THEN Call("disconnect", "closing_destroy")
       ELSE upc' = "closing_destroy" /\ ustack' = ustack
    /\ UNCHANGED <<uarg>>
    /\ UNCHANGED <<pvars, guiVars, thrVars, runVars, envVars>>

\* line 391: self.root.destroy(); the main loop ends
UIClosingDestroy ==
    /\ upc = "closing_destroy"
    /\ destroyed' = TRUE
    /\ upc' = "closed"
    /\ UNCHANGED <<serial_conn, reader_thread, connected, logging_active, buttons>>
    /\ UNCHANGED <<ustack, uarg>>
    /\ UNCHANGED <<pvars, thrVars, runVars, envVars>>

UINext ==
    \/ UIToggleConnection
    \/ UIConnect
    \/ UIConnectError
    \/ UIConnectStart
    \/ UIDisconnect
    \/ UIDisconnectStop
    \/ UIDisconnectJoin
    \/ UIDisconnectClose
    \/ UIToggleLogging
    \/ UIStartLogging
    \/ UISetLoggingOnFlag
    \/ UISetLoggingOnPath
    \/ UIStopLogging
    \/ UISetLoggingOffFlag
    \/ UISetLoggingOffCheck
    \/ UISetLoggingOffClose
    \/ UISetLoggingOffClear
    \/ UIStopLoggingDone
    \/ UIOnClosing
    \/ UIClosingDisconnect
    \/ UIClosingDestroy

Next == ReaderNext \/ UINext

Spec == Init /\ [][Next]_vars

\* the scheduler runs the reader thread and the UI thread finishes the
\* handler it has started
FairSpec == Spec /\ WF_vars(ReaderNext)

(***************************************************************************)
(* The parser called on its own, on every line of the bounded input set.   *)
(***************************************************************************)
\* the pieces a device line is assembled from
Pieces == <<S_MAIN, S_AUX, <<" ">>, <<"1">>, <<".">>, <<"V">>, S_LOWBAT,
            <<"-", "2", ".", "5", " ", "m", "V">>>>

RECURSIVE Concat(_)
Concat(ps) == IF ps = <<>> THEN <<>> ELSE Pieces[Head(ps)] \o Concat(Tail(ps))

ParseInputs == {Concat(ps) : ps \in UNION {[1..n -> 1..Len(Pieces)] : n \in 0..MaxPieces}}

ParseInit ==
    /\ pline \in ParseInputs
    /\ presult = NotRun
    /\ psummary = <<>>
    /\ GuiInit

\* one call parse_all_measurements(line) followed by the summary of run()
ParseCall ==
    /\ presult = NotRun
    /\ LET parsed == parse_all_measurements(pline)
       IN  /\ presult' = parsed
           /\ psummary' = BuildLogStr(parsed)
    /\ UNCHANGED pline
    /\ UNCHANGED <<guiVars, uiVars, thrVars, runVars, envVars>>

ParseNext == ParseCall

ParseSpec == ParseInit /\ [][ParseNext]_vars

(***************************************************************************)
(* Vocabulary of the properties.                                           *)
(***************************************************************************)
\* the UI thread is inside SerialReaderThread.set_logging
InSetLogging == upc \in {"set_on", "set_on_path", "set_off", "set_off_chk",
                         "set_off_close", "set_off_none"}
\* a reader thread has been started
ThreadStarted == rpc # "nothread"
\* run() has left its loop
LoopLeft == rpc \in {"final", "close", "done"}
\* join() on the reader thread has returned (disconnect, lines 320-321)
Joined == rpc = "done" /\ reader_thread = "None"
AllClosed == \A h \in DOMAIN handles : handles[h].closed
\* this step calls a sink or writes a CSV row
Emitted == Len(events') > Len(events)
\* this step appends a CSV row
RowWritten == Emitted /\ events'[Len(events')].sink = "csv"
\* this step opens a log file
FileOpened == Len(handles') > Len(handles)
LastEvent == events[Len(events)]

\* the fields of a reading as a row shows them: those of the structured
\* reading, nothing for a raw one
ReadingFields(parsed) ==
    IF IsRaw(parsed)
    THEN [flags_str |-> <<>>, main_val |-> None, main_unit |-> <<>>,
          aux_val |-> None, aux_unit |-> <<>>, battery_str |-> S_OK]
    ELSE StructuredLocals(parsed)

\* the summary with a missing value rendered as nothing
PlaceholderSummary(loc) ==
    S_Flags \o loc.flags_str
    \o S_SepMain \o (IF loc.main_val = None THEN <<>> ELSE FloatStr(loc.main_val))
    \o <<" ">> \o loc.main_unit
    \o S_SepAux \o (IF loc.aux_val = None THEN <<>> ELSE FloatStr(loc.aux_val))
    \o <<" ">> \o loc.aux_unit
    \o S_SepBat \o loc.battery_str

\* the value and unit a match stands for
MatchValue(m) == IF m.ok THEN ToFloat(m.num) ELSE None
MatchUnit(m) == IF m.ok THEN m.unit ELSE None

(***************************************************************************)
(* C1: after set_logging(False) and then set_logging(True, newPath) have   *)
(* returned, with newPath different from the path used before, the file    *)
(* handle of the old path is closed and every row written goes to a handle *)
(* opened on newPath.  (A handle on a path other than csv_path exists only *)
(* after such an off/on sequence: start_logging and stop_logging           *)
(* alternate, and a thread starts without a path.)                         *)
(***************************************************************************)
C1_RowsGoToNewPath ==
    /\ [](logging_enabled /\ ~InSetLogging =>
            \A h \in DOMAIN handles : handles[h].path # csv_path => handles[h].closed)
    /\ [][logging_enabled /\ ~InSetLogging /\ RowWritten =>
            events'[Len(events')].path = csv_path]_vars

(***************************************************************************)
(* C2: once set_logging(False) has returned, and until set_logging(True,   *)
(* ...) is called, the reader loop appends no CSV row and opens no file.   *)
(***************************************************************************)
C2_NoWriteOnceLoggingOff ==
    [][ThreadStarted /\ ~logging_enabled /\ ~InSetLogging =>
          ~RowWritten /\ ~FileOpened]_vars

(***************************************************************************)
(* C3: once stop() has been called and join() has returned, every log file *)
(* handle is closed and the reader loop emits nothing more: no CSV row, no *)
(* log-sink and no display-sink call.                                      *)
(***************************************************************************)
C3_JoinedMeansClosedAndSilent ==
    /\ [](Joined => AllClosed)
    /\ [][Joined => ~Emitted /\ ~FileOpened]_vars

\* a joined thread whose run() closed a file it had written a row to
C3_Witness ==
    /\ Joined
    /\ \E h \in DOMAIN handles : handles[h].closedBy = "reader" /\ handles[h].rows > 0

(***************************************************************************)
(* C4: the reader loop leaves its loop only after stop(): in every state   *)
(* where a thread has been started and its stop flag is not set, run() is  *)
(* inside the loop, whatever failed in an iteration.                       *)
(***************************************************************************)
C4_LoopEndsOnlyOnStop == ThreadStarted /\ ~stop_event => ~LoopLeft

\* the loop goes on after a write to a file that set_logging(False) closed
C4_Witness ==
    /\ rpc = "sleep"
    /\ ~stop_event
    /\ events # <<>>
    /\ LastEvent.sink = "diag"
    /\ LastEvent.exc \in {"ValueError", "AttributeError"}

(***************************************************************************)
(* C5: every line processed with logging enabled and the file open gets    *)
(* its row: building the row never fails, and the fields of a row written  *)
(* are those of the parsed reading of the line of this iteration, also for *)
(* a raw reading.                                                          *)
(***************************************************************************)
C5_RowIsOfThisLine ==
    /\ ~(rpc = "except" /\ exc = "NameError")
    /\ \A i \in DOMAIN events :
          events[i].sink = "csv" => events[i].row = CsvLine(ReadingFields(parsed_data))

(***************************************************************************)
(* C6: every open and close of a log file is done by the reader thread.    *)
(***************************************************************************)
C6_HandleOwnedByReader ==
    \A h \in DOMAIN handles :
        handles[h].openedBy = "reader" /\ handles[h].closedBy \in {"none", "reader"}

(***************************************************************************)
(* C7: once stop() has been called the reader thread terminates; at the    *)
(* top of an iteration with the flag set it leaves the loop, after leaving *)
(* the loop it processes nothing, and when it has terminated every log     *)
(* file handle is closed.                                                  *)
(***************************************************************************)
C7_StopTerminatesAndCloses ==
    /\ (ThreadStarted /\ stop_event) ~> (rpc = "done")
    /\ [](rpc = "done" => AllClosed)
    /\ [][(rpc = "while" /\ stop_event /\ rpc' # rpc => rpc' = "final")
          /\ (rpc = "final" /\ rpc' # rpc => rpc' \in {"close", "done"})
          /\ (rpc = "close" /\ rpc' # rpc => rpc' = "done")]_vars

\* a terminated thread, not yet joined, whose run() closed the log file
C7_Witness ==
    /\ rpc = "done"
    /\ stop_event
    /\ reader_thread = "thread"
    /\ \E h \in DOMAIN handles : handles[h].closedBy = "reader"

(***************************************************************************)
(* C8: in the summary of a structured reading a missing main or aux value  *)
(* is rendered as nothing.                                                 *)
(***************************************************************************)
C8_MissingRenderedEmpty ==
    presult # NotRun /\ ~IsRaw(presult) =>
        psummary = PlaceholderSummary(StructuredLocals(presult))

(***************************************************************************)
(* C9: parse_all_measurements returns, for a line containing MAIN:, a      *)
(* structured reading (the six fields, no raw, each value a float or None, *)
(* value and unit missing together) and otherwise a raw reading holding    *)
(* the line unchanged and nothing else.                                    *)
(***************************************************************************)
IsValue(v) == v = None \/ v[1] = "float"

C9_StructuredXorRaw ==
    presult # NotRun =>
        IF Contains(pline, S_MAIN)
        THEN /\ DOMAIN presult = {"flags", "main_value", "main_unit",
                                  "aux_value", "aux_unit", "low_battery"}
             /\ IsValue(presult.main_value)
             /\ IsValue(presult.aux_value)
             /\ (presult.main_value = None) = (presult.main_unit = None)
             /\ (presult.aux_value = None) = (presult.aux_unit = None)
             /\ presult.low_battery \in BOOLEAN
        ELSE /\ DOMAIN presult = {"raw"}
             /\ presult.raw = pline

\* a structured reading with flags and no main value
C9_Witness ==
    /\ presult # NotRun
    /\ ~IsRaw(presult)
    /\ presult.flags # <<>>
    /\ presult.main_value = None

(***************************************************************************)
(* C10 as claimed: aux is extracted only when AUX: occurs in the text that *)
(* remains after the main match, from the first number-unit match after    *)
(* that AUX:, and is missing when that text has no AUX:.                   *)
(***************************************************************************)
TextAfterMainMatch(message) ==
    LET post_main == SplitAfter(message, S_MAIN)
        m_main == RegexSearch(post_main)
    IN  IF m_main.ok THEN From(post_main, m_main.end) ELSE post_main

C10_AuxOnlyAfterMainMatch ==
    presult # NotRun /\ ~IsRaw(presult) =>
        LET rest == TextAfterMainMatch(pline)
            m == IF Contains(rest, S_AUX) THEN RegexSearch(SplitAfter(rest, S_AUX))
                 ELSE NoMatch
        IN  /\ presult.aux_value = MatchValue(m)
            /\ presult.aux_unit = MatchUnit(m)

(***************************************************************************)
(* C10 amended: aux is extracted when AUX: occurs anywhere in the text     *)
(* after the first MAIN:, from the first number-unit match after the first *)
(* AUX:; it is missing when that text has no AUX: or no match follows.     *)
(***************************************************************************)
C10_AuxFromTextAfterMain ==
    presult # NotRun /\ ~IsRaw(presult) =>
        LET post_main == SplitAfter(pline, S_MAIN)
            m == IF Contains(post_main, S_AUX)
                 THEN RegexSearch(SplitAfter(post_main, S_AUX)) ELSE NoMatch
        IN  /\ presult.aux_value = MatchValue(m)
            /\ presult.aux_unit = MatchUnit(m)

\* an aux value taken from an AUX: that precedes the main match: the text
\* after the main match has no AUX:
C10_Witness ==
    /\ presult # NotRun
    /\ ~IsRaw(presult)
    /\ presult.aux_value # None
    /\ ~Contains(TextAfterMainMatch(pline), S_AUX)

(***************************************************************************)
(* C11: when opening the log file fails (makedirs or open raises), the     *)
(* failure is passed as text to the logging sink (unless the sink itself   *)
(* raises), no file handle is held and no CSV row is written in that       *)
(* iteration, and run() stays in its loop: the raw line and the summary of *)
(* the line were delivered and the next iteration starts as usual.         *)
(***************************************************************************)
IsOpenError(ev) == ev.sink = "log" /\ ev.text = S_OpenErr
\* the open of this iteration failed and was reported
OpenFailed == \E i \in DOMAIN events : IsOpenError(events[i])

C11_OpenFailureReported ==
    /\ [](OpenFailed =>
            /\ csv_file = NoFile
            /\ \A i \in DOMAIN events : events[i].sink # "csv"
            /\ ~stop_event => ~LoopLeft)
    /\ [][rpc = "openerr" /\ rpc' # rpc =>
            \/ rpc' = "chk_written" /\ Emitted /\ IsOpenError(events'[Len(events')])
                  /\ csv_file' = NoFile
            \/ rpc' = "except" /\ exc' = "CallbackError"]_vars
    /\ [][OpenFailed /\ rpc = "chk_written" /\ rpc' # rpc => rpc' = "sleep"]_vars

\* an iteration that delivered the raw line and the summary, failed to open
\* the file with logging enabled, reported it and goes on
C11_Witness ==
    /\ OpenFailed
    /\ rpc = "sleep"
    /\ logging_enabled
    /\ ~stop_event
    /\ Len(events) = 3
    /\ events[1] = [sink |-> "log", text |-> S_RAW \o line]
    /\ events[2] = [sink |-> "log", text |-> log_str]

(***************************************************************************)
(* C12: the log file is opened lazily.  set_logging opens nothing; a file  *)
(* is opened only by the reader loop, in an iteration on a non-empty line, *)
(* in append mode on the path supplied; for any non-empty path, with or    *)
(* without a directory component, creating its directories fails only when *)
(* the file system refuses; set_logging(False) leaves the file it found    *)
(* open closed.  (That the row of the opening line is written is C5's      *)
(* subject.)                                                               *)
(***************************************************************************)
C12_LazyOpenAnyPath ==
    /\ [][InSetLogging /\ upc' # upc => ~FileOpened]_vars
    /\ [][FileOpened => rpc = "open" /\ line # <<>> /\ rpc' = "chk_written"
                        /\ handles'[Len(handles')].path = csv_path]_vars
    /\ [][rpc = "makedirs" /\ rpc' = "openerr" => exc' = "OSError"]_vars
    /\ [][upc = "set_off_close" /\ upc' # upc => handles'[csv_file].closed]_vars

(***************************************************************************)
(* C13: in an iteration on a non-empty line the display sink is called     *)
(* exactly once, with the main value of the reading parsed from that line, *)
(* if the reading is structured and has a main value, and not at all if    *)
(* the reading is raw or has no main value; the display sink is called     *)
(* nowhere else and with nothing else.                                     *)
(***************************************************************************)
\* the calls of the display sink in the current iteration
DisplayCalls == {i \in DOMAIN events : events[i].sink = "display"}
\* the reading of the current line has a main value
HasMainValue == ~IsRaw(ParsedLine[line]) /\ ParsedLine[line].main_value # None
\* run() is past lines 136-137 in the current iteration
PastDisplay == rpc \in {"logsum", "chk_enabled", "chk_file", "makedirs", "open",
                        "openerr", "chk_written", "mkrow", "write", "flush"}

ConnectFailed == upc = "connect_error"

C14_FailedConnectChangesNothing ==
    /\ [](ConnectFailed =>
            /\ ~connected
            /\ serial_conn = "None"
            /\ reader_thread = "None"
            /\ rpc \in {"nothread", "done"}
            /\ ~port_open
            /\ buttons = [logging |-> "disabled", send |-> "disabled",
                          connect |-> "Connect"])
    /\ [][(upc = "connect" /\ ConnectFailed') \/ ConnectFailed =>
             UNCHANGED <<guiVars, thrVars, runVars, envVars>>]_vars

\* a connect that failed after an earlier connection was closed
C14_Witness ==
    /\ ConnectFailed
    /\ connects > 0
    /\ rpc = "done"

(***************************************************************************)
(* C15 as claimed: in an iteration on a non-empty line the sinks are       *)
(* called in this order: the logging sink with the raw line, the display   *)
(* sink if the reading has a main value, the logging sink with the         *)
(* summary, and then at most a CSV row; the logging sink gets exactly      *)
(* these two messages, and an empty line produces no sink call and no row. *)
(***************************************************************************)
IsPrefix(a, b) == Len(a) <= Len(b) /\ \A i \in DOMAIN a : a[i] = b[i]
\* the calls of this iteration other than those of the diagnostic sink
SinkEvents == SelectSeq(events, LAMBDA ev : ev.sink # "diag")
\* what lines 115-140 deliver for the current line
ExpectedHead ==
    <<[sink |-> "log", text |-> S_RAW \o line]>>
    \o (IF HasMainValue
        THEN <<[sink |-> "display", value |-> ParsedLine[line].main_value]>>
        ELSE <<>>)
    \o <<[sink |-> "log", text |-> BuildLogStr(ParsedLine[line])]>>
\* the calls so far are the expected ones, followed by at most one more: a
\* CSV row or, where withOpenError says so, the open error
OrderedUpTo(withOpenError) ==
    LET sunk == SinkEvents
    IN  \/ IsPrefix(sunk, ExpectedHead)
        \/ /\ Len(sunk) = Len(ExpectedHead) + 1
           /\ IsPrefix(ExpectedHead, sunk)
           /\ \/ sunk[Len(sunk)].sink = "csv"
              \/ withOpenError /\ IsOpenError(sunk[Len(sunk)])
\* a sink other than the diagnostic one is called only on a non-empty line
NothingOnEmptyLine ==
    [][Emitted /\ events'[Len(events')].sink # "diag" => line # <<>>]_vars

C15_TwoLogMessagesThenRow ==
    /\ [](OrderedUpTo(FALSE))
    /\ NothingOnEmptyLine

(***************************************************************************)
(* C15 amended: the same order, and after the summary the logging sink     *)
(* gets one more message, the open error, in an iteration whose attempt to *)
(* open the log file failed; such an iteration writes no row.              *)
(***************************************************************************)
C15_OrderedWithOpenError ==
    /\ [](OrderedUpTo(TRUE))
    /\ NothingOnEmptyLine

\* an iteration on a line with a main value that called the logging sink a
\* third time, for the open error
C15_Witness ==
    /\ rpc = "sleep"
    /\ Len(events) = 4
    /\ events[2].sink = "display"
    /\ IsOpenError(events[4])

(***************************************************************************)
(* C16: whenever no GUI handler is running, logging_active implies         *)
(* connected, connected holds exactly when serial_conn and reader_thread   *)
(* are both set, and the logging_enabled flag of the reader thread equals  *)
(* logging_active; a thread created by connect starts with logging         *)
(* disabled while logging_active is false.                                 *)
(***************************************************************************)
\* the UI thread is between two handlers, or the window was closed
HandlersCompleted == upc \in {"idle", "closed"}

C16_GuiFlagsConsistent ==
    /\ [](HandlersCompleted =>
            /\ logging_active => connected
            /\ connected = (serial_conn # "None" /\ reader_thread # "None")
            /\ reader_thread # "None" => logging_enabled = logging_active)
    /\ [][upc = "connect_start" /\ upc' # upc =>
            ~logging_enabled' /\ ~logging_active' /\ csv_file' = NoFile
            /\ csv_path' = NoPath]_vars

\* logging switched on in the second connection
C16_Witness ==
    /\ HandlersCompleted
    /\ connects = 2
    /\ connected
    /\ logging_active
    /\ logging_enabled

(***************************************************************************)
(* C17: disconnect, also when called by on_closing, first stops the        *)
(* logging, then sets the stop flag and joins the reader thread, then      *)
(* closes the serial port: the stop flag is set with logging off, the port *)
(* is closed only when the thread has terminated, run() never polls or     *)
(* reads a closed port, and a thread is started only when no other thread  *)
(* is running.                                                             *)
(***************************************************************************)
\* no reader thread is running
NoThreadRunning == rpc \in {"nothread", "done"}

C17_ShutdownOrder ==
    /\ [][~stop_event /\ stop_event' => ~logging_active /\ ~logging_enabled]_vars
    /\ [][port_open /\ ~port_open' =>
             NoThreadRunning /\ reader_thread = "None" /\ stop_event]_vars
    /\ [](rpc \in {"poll", "read"} => port_open)
    /\ [](~NoThreadRunning => port_open /\ reader_thread = "thread")
    /\ [][upc = "connect_start" /\ upc' # upc => NoThreadRunning]_vars

\* the window was closed while connected, after lines were read
C17_Witness ==
    /\ destroyed
    /\ linesRead > 0
    /\ rpc = "done"
    /\ ~port_open
    /\ reader_thread = "None"

====
